---------------------------- MODULE Spec2Model ----------------------------
(*
  A model of mpc.MPC (src/mpc/mpc.py): the constructor's checks, the entry
  of MPC.forward (batch-size inference, QuadCost shape expansion, x_init
  assertion, initial controls), the outer iLQR loop with its best-trajectory
  accumulator and early stops, and the post-loop non-convergence policy.

  Arrays are modelled by what the loop reads of them:
    - a trajectory array [T, n_batch, *] is the sequence of its batch
      columns, each column a tag [elem, it]: the batch element it belongs
      to and the outer iteration whose LQR step produced it (it = -1 for
      the initial controls).  Element j of the code (0-based) is index j+1.
    - a cost is an integer in Costs; best_cost_eps is an integer.
    - a control-update norm is measured against eps: eps-1 (below), eps,
      eps+1 (above); the code only ever compares norms with eps.
  LQRStep (mpc/lqr_step.py) is not among the source files; its outcome is
  any pair (costs, full_du_norm) for Module dynamics, and the exact optimum
  for LinDx dynamics with a QuadCost.
*)
EXTENDS Integers, Sequences, FiniteSets

\* ------------------------------------------------------------------ bounds
MaxIter   == 3      \* largest lqr_iter explored
MaxLim    == 2      \* largest not_improved_lim explored
MaxT      == 3      \* longest horizon T of a direct helper call

\* eps (mpc.py:134), as the unit of the norm scale
eps == 1

\* batch sizes: a single element, and more than one
BatchSizes   == {1, 2}
Costs        == {0, 1}
Norms        == {eps - 1, eps, eps + 1}
BestCostEps  == {-1, 0, 1, 2}

VARIABLES
  pc,              \* "init" | "constructed" | "loop" | "post" | "returned" | "failed"
  err,             \* the exception that ended the call ("" while none)
  mpc,             \* the options stored by MPC.__init__ (self.*)
  x_init,          \* [ndim, rows]: rank and shape[0] of x_init
  cost,            \* QuadCost: [C_ndim, C_batch, c_ndim]; C_batch = C.shape[1] of a 4-D C, else 0
  dx,              \* "LinDx" | "Module"
  u_init_opt,      \* LinDx only: the initial controls already are the optimum
  n_batch,         \* forward's local n_batch (0 before it is set)
  i,               \* index of the next outer iteration (= iterations completed)
  n_not_improved,  \* forward's shared non-improvement counter
  u,               \* forward's local u: the nominal controls of the next iteration
  best,            \* the best accumulator (NoBest while None)
  for_out,         \* _lqr.for_out of the latest LQR step
  ret,             \* the returned (x, u, costs)
  warned,          \* the "LQR Warning" lines were printed
  calls,           \* invocations so far: [get_traj, linearize, lqr]
  above,           \* elements whose full_du_norm was above eps in every iteration so far
  seen,            \* history: per element, the first and the least candidate cost so far
  call             \* a direct call of a helper: its arguments and its result

fwdvars == <<pc, err, mpc, x_init, cost, dx, u_init_opt, n_batch, i,
             n_not_improved, u, best, for_out, ret, warned, calls, above,
             seen>>

vars == <<fwdvars, call>>

\* ----------------------------------------------------------------- helpers
NoBest == [x |-> <<>>, u |-> <<>>, costs |-> <<>>, full_du_norm |-> <<>>,
           costs_it |-> <<>>, norm_it |-> <<>>]
NoOut  == [costs |-> <<>>, full_du_norm |-> <<>>]
\* detached: the batch elements whose returned columns were cut from the graph
NoRet  == [x |-> <<>>, u |-> <<>>, costs |-> <<>>, detached |-> {}]
NoCalls == [get_traj |-> 0, linearize |-> 0, lqr |-> 0]

\* no helper is called directly: the shape of a direct call's record
NoDx == [kind |-> "", F |-> <<>>, has_f |-> FALSE, f |-> <<>>,
         has_goal |-> FALSE, goal_state |-> 0, goal_ctrl |-> 0]
NoQuad == [C |-> <<>>, c |-> <<>>]
NoResult == [err |-> "", val |-> 0]
NoCall == [fn |-> "", T |-> 0, u |-> <<>>, x_init |-> 0, dyn |-> NoDx,
           cost |-> NoQuad, gm |-> "", kind |-> "", done |-> FALSE,
           result |-> NoResult, after |-> <<>>]

Range(s) == {s[k] : k \in DOMAIN s}

\* max(...) of a non-empty sequence of numbers
MaxOf(s) == CHOOSE m \in Range(s) : \A v \in Range(s) : v <= m

\* the array of one LQR step / of the initial controls: one column per element
Columns(it, n) == [j \in 1..n |-> [elem |-> j, it |-> it]]

\* np.split(a, indices_or_sections=1, axis=1): ONE section, the whole array
Split(a) == <<a>>

\* np.expand_dims(a[:, j], 1): the single column j
ExpandDims(a, j) == <<a[j]>>

\* np.concatenate(list, axis=1)
RECURSIVE Concatenate(_)
Concatenate(list) ==
  IF list = <<>> THEN <<>> ELSE Head(list) \o Concatenate(Tail(list))


\* ------------------------------------------------------------------ inputs
\* Options of the loop and of the post-loop policy, with the constructor's
\* other arguments valid and the batch size n configured.
LoopOptions(n) ==
  [u_lower : {FALSE}, u_upper : {FALSE}, max_linesearch_iter : {1},
   n_batch : {n},
   lqr_iter : 0..MaxIter, verbose : {0, 1},
   exit_unconverged : BOOLEAN, detach_unconverged : BOOLEAN,
   not_improved_lim : 0..MaxLim, best_cost_eps : BestCostEps]

\* The constructor's checked arguments and the configured batch size
\* (0 = None) varied, the loop options fixed.
ShapeOptions ==
  [u_lower : BOOLEAN, u_upper : BOOLEAN, max_linesearch_iter : {0, 1},
   n_batch : {0} \cup BatchSizes,
   lqr_iter : {1}, verbose : {0},
   exit_unconverged : {TRUE}, detach_unconverged : {TRUE},
   not_improved_lim : {MaxLim}, best_cost_eps : {1}]

\* verbose = -1 (no output or warnings) under every non-convergence policy,
\* for a single outer iteration
QuietOptions(n) ==
  [u_lower : {FALSE}, u_upper : {FALSE}, max_linesearch_iter : {1},
   n_batch : {n},
   lqr_iter : {1}, verbose : {-1},
   exit_unconverged : BOOLEAN, detach_unconverged : BOOLEAN,
   not_improved_lim : {MaxLim}, best_cost_eps : {1}]

XInits == [ndim : {1, 2, 3}, rows : BatchSizes]

\* C of rank 1..5 (a 4-D C with rows batch columns), c of rank 1..4
QuadCosts(rows) ==
  {[C_ndim |-> Cd, C_batch |-> IF Cd = 4 THEN rows ELSE 0, c_ndim |-> cd] :
     Cd \in 1..5, cd \in 1..4}

Init ==
  /\ pc = "init"
  /\ err = ""
  /\ \/ \E n \in BatchSizes :
          /\ mpc \in LoopOptions(n) \cup QuietOptions(n)
          /\ x_init = [ndim |-> 2, rows |-> n]
          /\ cost = [C_ndim |-> 4, C_batch |-> n, c_ndim |-> 3]
     \/ /\ mpc \in ShapeOptions
        /\ x_init \in XInits
        /\ cost \in QuadCosts(x_init.rows)
  /\ dx \in {"LinDx", "Module"}
  /\ u_init_opt \in (IF dx = "LinDx" THEN BOOLEAN ELSE {FALSE})
  /\ n_batch = 0
  /\ i = 0
  /\ n_not_improved = 0
  /\ u = <<>>
  /\ best = NoBest
  /\ for_out = NoOut
  /\ ret = NoRet
  /\ warned = FALSE
  /\ calls = NoCalls
  /\ above = {}
  /\ seen = <<>>
  /\ call = NoCall

\* An exception leaves forward (or __init__): its frame, and with it the
\* locals, is gone.
Raise(e) ==
  /\ pc' = "failed"
  /\ err' = e
  /\ i' = 0
  /\ n_not_improved' = 0
  /\ n_batch' = 0
  /\ u' = <<>>
  /\ best' = NoBest
  /\ for_out' = NoOut
  /\ above' = {}
  /\ seen' = <<>>

\* ------------------------------------------------------------- MPC.__init__
\* assert (u_lower is None) == (u_upper is None); assert max_linesearch_iter > 0
CtorAccepts(o) ==
  /\ o.u_lower = o.u_upper
  /\ o.max_linesearch_iter > 0

Construct ==
  /\ pc = "init"
  /\ IF CtorAccepts(mpc)
       THEN /\ pc' = "constructed"
            /\ UNCHANGED <<err, i, n_not_improved, n_batch, u, best, for_out,
                           above, seen>>
       ELSE Raise("AssertionError")
  /\ UNCHANGED <<mpc, x_init, cost, dx, u_init_opt, ret, warned, calls, call>>

\* -------------------------------------------------- MPC.forward, lines 191-246
\* the batch size: self.n_batch, else C.shape[1] of a 4-D C, else 0 (none)
InferBatch(o, c) ==
  IF o.n_batch # 0 THEN o.n_batch
  ELSE IF c.C_ndim = 4 THEN c.C_batch
  ELSE 0

\* C and c after the np.tile expansions
ExpandCost(c, n) ==
  [C_ndim  |-> IF c.C_ndim \in {2, 3} THEN 4 ELSE c.C_ndim,
   C_batch |-> IF c.C_ndim \in {2, 3} THEN n ELSE c.C_batch,
   c_ndim  |-> IF c.c_ndim \in {1, 2} THEN 3 ELSE c.c_ndim]

\* a faulty variant: the batch dimension of x_init left unchecked
XInitOkRankOnly(xi, n) == xi.ndim = 2

\* assert x_init.ndim == 2 and x_init.shape[0] == n_batch
XInitOk(xi, n) == xi.ndim = 2 /\ xi.rows = n

ForwardEntry ==
  /\ pc = "constructed"
  /\ LET n == InferBatch(mpc, cost)
         C == ExpandCost(cost, n)
     IN
     IF n = 0
       THEN Raise("SystemExit") /\ UNCHANGED <<cost, calls>>
     ELSE IF C.C_ndim # 4 \/ C.c_ndim # 3
       THEN Raise("SystemExit") /\ UNCHANGED <<cost, calls>>
     ELSE IF ~XInitOk(x_init, n)
       THEN Raise("AssertionError") /\ UNCHANGED <<cost, calls>>
     ELSE IF mpc.verbose > 0 /\ dx = "LinDx"
       \* util.get_cost rolls the trajectory out, then reads
       \* dynamics.goal_state, which a LinDx tuple does not have
       THEN Raise("AttributeError") /\ UNCHANGED cost
            /\ calls' = [calls EXCEPT !.get_traj = @ + 1]
     ELSE /\ n_batch' = n
          /\ cost' = C
          /\ calls' = IF mpc.verbose > 0
                        THEN [calls EXCEPT !.get_traj = @ + 1] ELSE calls
          /\ u' = Columns(-1, n)
          /\ best' = NoBest
          /\ n_not_improved' = 0
          /\ i' = 0
          /\ above' = 1..n
          /\ pc' = IF mpc.lqr_iter > 0 THEN "loop" ELSE "post"
          /\ UNCHANGED <<err, for_out, seen>>
  /\ UNCHANGED <<mpc, x_init, dx, u_init_opt, ret, warned, call>>


\* ------------------------------------------------------------- the LQR step
\* LinDx with a QuadCost: whether the nominal controls are the optimum.  The
\* controls an exact LQR step returned are; the initial ones are if given so.
NominalOptimal(nominal) ==
  IF nominal[1].it = -1 THEN u_init_opt ELSE TRUE

\* LinDx with a QuadCost: the step is exact, the candidate is the optimum
\* (cost 0) and the full step is what separates the nominal controls from it.
ExactOutcome(n, nominal) ==
  [costs |-> [j \in 1..n |-> 0],
   full_du_norm |-> [j \in 1..n |->
      IF NominalOptimal(nominal) THEN eps - 1 ELSE eps + 1]]

\* lines 272-275: for_out of one LQR step around the nominal controls, as
\* the loop reads it: costs[j] and full_du_norm[j] per batch element, of any
\* values unless the problem is exactly linear-quadratic.
LQROutcomes(n, nominal) ==
  IF dx = "LinDx"
    THEN {ExactOutcome(n, nominal)}
    ELSE [costs : [1..n -> Costs], full_du_norm : [1..n -> Norms]]

\* -------------------------------------------------- the outer loop, 249-340
\* a faulty variant: the threshold added instead of subtracted
ImprovesSignFlipped(c, b) == c <= b + mpc.best_cost_eps

\* a faulty variant: the threshold has to be beaten
ImprovesStrictly(c, b) == c < b - mpc.best_cost_eps

\* line 297: the candidate cost c replaces the best cost b
Improves(c, b) == c <= b - mpc.best_cost_eps

\* lines 280-294: the first candidate becomes the best
FirstBest(x, uc, out, it, n) ==
  [x |-> Split(x), u |-> Split(uc),
   costs |-> out.costs, full_du_norm |-> out.full_du_norm,
   costs_it |-> [j \in 1..n |-> it], norm_it |-> [j \in 1..n |-> it]]

\* lines 298-310 for element j: the list assignments raise IndexError past
\* the end of the list, after n_not_improved was reset
Adopt(st, x, uc, out, it, j) ==
  IF j > Len(st.best.x)
    THEN [st EXCEPT !.n_not_improved = 0, !.raised = TRUE]
    ELSE [st EXCEPT !.n_not_improved = 0,
                    !.best.x[j] = ExpandDims(x, j),
                    !.best.u[j] = ExpandDims(uc, j),
                    !.best.costs[j] = out.costs[j],
                    !.best.full_du_norm[j] = out.full_du_norm[j],
                    !.best.costs_it[j] = it,
                    !.best.norm_it[j] = it]

\* lines 296-310: for j in range(n_batch), from element j on
RECURSIVE UpdateBest(_, _, _, _, _, _, _)
UpdateBest(st, x, uc, out, it, j, n) ==
  IF j > n \/ st.raised THEN st
  ELSE IF Improves(out.costs[j], st.best.costs[j])
    THEN UpdateBest(Adopt(st, x, uc, out, it, j), x, uc, out, it, j + 1, n)
    ELSE UpdateBest(st, x, uc, out, it, j + 1, n)

\* lines 338-339: the early stops
Converged(out) == MaxOf(out.full_du_norm) < eps
NotImproved(nni) == nni > mpc.not_improved_lim
Break(out, nni) == Converged(out) \/ NotImproved(nni)

\* a faulty variant: one iteration too many
ExhaustedOffByOne(k) == k > mpc.lqr_iter

\* line 249: range(self.lqr_iter) is used up once k iterations are done
Exhausted(k) == k >= mpc.lqr_iter

Iterate ==
  /\ pc = "loop"
  /\ \E out \in LQROutcomes(n_batch, u) :
       LET x  == Columns(i, n_batch)       \* the candidate states
           uc == Columns(i, n_batch)       \* the candidate controls
           st == IF best = NoBest
                   THEN [best |-> FirstBest(x, uc, out, i, n_batch),
                         n_not_improved |-> n_not_improved + 1,
                         raised |-> FALSE]
                   ELSE UpdateBest([best |-> best,
                                    n_not_improved |-> n_not_improved + 1,
                                    raised |-> FALSE],
                                   x, uc, out, i, 1, n_batch)
           done == [calls EXCEPT !.get_traj = @ + 1, !.lqr = @ + 1,
                      !.linearize = IF dx = "LinDx" THEN @ ELSE @ + 1]
       IN
       /\ calls' = done
       /\ IF st.raised
            THEN Raise("IndexError")
          ELSE IF mpc.verbose > 0
            \* line 316: best has no key 'costsxx'
            THEN Raise("KeyError")
          ELSE /\ u' = uc
               /\ for_out' = out
               /\ best' = st.best
               /\ n_not_improved' = st.n_not_improved
               /\ above' = {j \in above : out.full_du_norm[j] > eps}
               /\ seen' = [j \in 1..n_batch |->
                            IF best = NoBest
                              THEN [first |-> out.costs[j], least |-> out.costs[j]]
                              ELSE [seen[j] EXCEPT !.least =
                                      IF out.costs[j] < @ THEN out.costs[j] ELSE @]]
               /\ i' = i + 1
               /\ pc' = IF Break(out, st.n_not_improved) \/ Exhausted(i + 1)
                          THEN "post" ELSE "loop"
               /\ UNCHANGED <<err, n_batch>>
  /\ UNCHANGED <<mpc, x_init, cost, dx, u_init_opt, ret, warned, call>>

\* ------------------------------------------------------ post-loop, 343-379
Unconverged(b) == MaxOf(b.full_du_norm) > eps

PostLoop ==
  /\ pc = "post"
  /\ IF best = NoBest
       \* lqr_iter = 0: best is None, best['x'] raises
       THEN Raise("TypeError") /\ UNCHANGED <<ret, warned>>
     ELSE IF mpc.detach_unconverged /\ Unconverged(best)
       THEN IF mpc.exit_unconverged
              THEN Raise("AssertionError") /\ UNCHANGED <<ret, warned>>
              \* lines 372-376: x and u are numpy arrays (np.concatenate);
              \* the mask is built with unsqueeze/expand_as and applied with
              \* clone/detach: a numpy mask has no unsqueeze, a tensor mask
              \* cannot expand_as a numpy array
              ELSE /\ \E e \in {"AttributeError", "TypeError"} : Raise(e)
                   /\ warned' = (mpc.verbose >= 0)
                   /\ UNCHANGED ret
     \* lines 372-376 were not entered: nothing is detached
     ELSE /\ ret' = [x |-> Concatenate(best.x), u |-> Concatenate(best.u),
                     costs |-> best.costs, detached |-> {}]
          /\ pc' = "returned"
          /\ i' = 0
          /\ n_not_improved' = 0
          /\ u' = <<>>
          /\ best' = NoBest
          /\ for_out' = NoOut
          /\ above' = {}
          /\ UNCHANGED <<err, n_batch, warned, seen>>
  /\ UNCHANGED <<mpc, x_init, cost, dx, u_init_opt, calls, call>>

Next == Construct \/ ForwardEntry \/ Iterate \/ PostLoop

Spec == Init /\ [][Next]_vars

\* ------------------------------------ util.get_traj, util.get_cost and
\* MPC.linearize_dynamics called directly, with n_state = n_ctrl = 1 and one
\* batch element: a state, a control and a matrix entry is an integer.
\* Index t of the code (0-based) is index t+1 here.

\* util.bmv(F[t], xut) with xut = np.concatenate((xt, ut), 1)
Bmv(Ft, xt, ut) == Ft.x * xt + Ft.u * ut

\* dynamics(xt, ut) of a Module: a callback that is not affine
ModuleStep(xt, ut) == xt * ut + 1

\* a faulty variant: the offset f[t] dropped
StepNoOffset(dyn, t, xt, ut) ==
  IF dyn.kind = "LinDx" THEN Bmv(dyn.F[t + 1], xt, ut) ELSE ModuleStep(xt, ut)

\* util.py lines 118-124: new_x of step t
Step(dyn, t, xt, ut) ==
  IF dyn.kind = "LinDx"
    THEN IF dyn.has_f
           THEN Bmv(dyn.F[t + 1], xt, ut) + dyn.f[t + 1]
           ELSE Bmv(dyn.F[t + 1], xt, ut)
    ELSE ModuleStep(xt, ut)

\* util.py lines 112-125: the list x after the passes t, t+1, .., T-1 of the
\* loop; new_x is appended only while t < T-1
RECURSIVE Rollout(_, _, _, _, _)
Rollout(x, t, T, uu, dyn) ==
  IF t >= T THEN x
  ELSE IF t < T - 1
    THEN Rollout(Append(x, Step(dyn, t, x[t + 1], uu[t + 1])), t + 1, T, uu, dyn)
    ELSE Rollout(x, t + 1, T, uu, dyn)

\* util.get_traj: np.stack of the list that starts as [x_init]
GetTraj(T, uu, xi, dyn) == Rollout(<<xi>>, 0, T, uu, dyn)

\* util.bquad(d, C[t]) for a diagonal C[t]
Bquad(d, Ct) == Ct.xx * d.x * d.x + Ct.uu * d.u * d.u

\* util.py lines 143-155: the sum of obj over t = t0 .. T-1
RECURSIVE SumObjs(_, _, _, _, _, _)
SumObjs(t, T, x, uu, qc, dyn) ==
  IF t >= T THEN 0
  ELSE (Bquad([x |-> x[t + 1] - dyn.goal_state,
               u |-> uu[t + 1] - dyn.goal_ctrl], qc.C[t + 1]) \div 2)
       + SumObjs(t + 1, T, x, uu, qc, dyn)

\* util.get_cost for a QuadCost, x not given: line 150 reads
\* dynamics.goal_state and dynamics.goal_ctrl, which a LinDx tuple (and a
\* Module that does not define them) does not have
GetCost(T, uu, qc, dyn, xi) ==
  IF ~dyn.has_goal
    THEN [err |-> "AttributeError", val |-> 0]
    ELSE [err |-> "", val |-> SumObjs(0, T, GetTraj(T, uu, xi, dyn), uu, qc, dyn)]

\* MPC.linearize_dynamics for T >= 2, by grad_method and by the kind of the
\* arrays x and u: line 571 wraps x[t] in Variable, which takes tensors only
\* (forward passes the numpy array of get_traj); line 592 asserts False
LinearizeDynamics(gm, kind) ==
  IF gm = "ANALYTIC" THEN ""
  ELSE IF kind = "ndarray" THEN "TypeError"
  ELSE IF gm = "ANALYTIC_CHECK" THEN "AssertionError"
  ELSE ""

GradMethods == {"ANALYTIC", "AUTO_DIFF", "ANALYTIC_CHECK"}
Kinds == {"ndarray", "tensor"}
Vals == {0, 1}

\* LinDx(F, f) for horizon T: F[t] = [R S] for t = 0..T-2, f optional
LinDxs(T) ==
  {[NoDx EXCEPT !.kind = "LinDx", !.F = F] :
     F \in [1..T-1 -> [x : Vals, u : Vals]]}
    \cup {[NoDx EXCEPT !.kind = "LinDx", !.F = F, !.has_f = TRUE, !.f = f] :
            F \in [1..T-1 -> [x : Vals, u : Vals]], f \in [1..T-1 -> Vals]}

\* Module dynamics, with or without goal_state and goal_ctrl attributes
Modules ==
  {[NoDx EXCEPT !.kind = "Module"]}
    \cup {[NoDx EXCEPT !.kind = "Module", !.has_goal = TRUE,
                       !.goal_state = gs, !.goal_ctrl = gc] :
            gs \in Vals, gc \in Vals}

\* QuadCost(C, c) for horizon T, the same diagonal C[t] and the same c[t]
\* at every t
QuadCostsT(T) ==
  {[C |-> [t \in 1..T |-> Ct], c |-> [t \in 1..T |-> ct]] :
     Ct \in [xx : {0, 2}, uu : {0, 2}], ct \in [x : Vals, u : Vals]}

TrajCalls ==
  UNION {{[NoCall EXCEPT !.fn = "get_traj", !.T = T, !.u = uu, !.x_init = xi,
                         !.dyn = dyn] :
            uu \in [1..T -> Vals], xi \in Vals, dyn \in LinDxs(T) \cup Modules} :
         T \in 1..MaxT}

CostCalls ==
  UNION {{[NoCall EXCEPT !.fn = "get_cost", !.T = T, !.u = uu, !.x_init = xi,
                         !.dyn = dyn, !.cost = qc] :
            uu \in [1..T -> Vals], xi \in Vals,
            dyn \in {d \in LinDxs(T) : ~d.has_f /\ \A t \in 1..T-1 : d.F[t] = [x |-> 1, u |-> 1]}
                       \cup Modules,
            qc \in QuadCostsT(T)} :
         T \in 1..MaxT}

LinearizeCalls ==
  {[NoCall EXCEPT !.fn = "linearize_dynamics", !.T = T, !.gm = gm, !.kind = k] :
     T \in 2..MaxT, gm \in GradMethods, k \in Kinds}

\* the solver constructed with its defaults' policy, forward not called
HelperInit ==
  /\ pc = "constructed"
  /\ err = ""
  /\ mpc = [u_lower |-> FALSE, u_upper |-> FALSE, max_linesearch_iter |-> 1,
            n_batch |-> 1, lqr_iter |-> 1, verbose |-> 0,
            exit_unconverged |-> TRUE, detach_unconverged |-> TRUE,
            not_improved_lim |-> MaxLim, best_cost_eps |-> 1]
  /\ x_init = [ndim |-> 2, rows |-> 1]
  /\ cost = [C_ndim |-> 4, C_batch |-> 1, c_ndim |-> 3]
  /\ dx = "Module"
  /\ u_init_opt = FALSE
  /\ n_batch = 0
  /\ i = 0
  /\ n_not_improved = 0
  /\ u = <<>>
  /\ best = NoBest
  /\ for_out = NoOut
  /\ ret = NoRet
  /\ warned = FALSE
  /\ calls = NoCalls
  /\ above = {}
  /\ seen = <<>>
  /\ call \in TrajCalls \cup CostCalls \cup LinearizeCalls

\* x = util.get_traj(T, u, x_init, dynamics).  The list's first entry is
\* the object x_init itself; u, F and f are only indexed.
GetTrajCall ==
  /\ call.fn = "get_traj" /\ ~call.done
  /\ LET list == Rollout(<<call.x_init>>, 0, call.T, call.u, call.dyn) IN
       call' = [call EXCEPT !.done = TRUE,
                            !.result = [err |-> "", val |-> list],
                            !.after = [x_init |-> Head(list), u |-> call.u,
                                       dyn |-> call.dyn]]
  /\ UNCHANGED fwdvars

\* util.get_cost(T, u, cost, dynamics, x_init=x_init)
GetCostCall ==
  /\ call.fn = "get_cost" /\ ~call.done
  /\ call' = [call EXCEPT !.done = TRUE,
                          !.result = GetCost(call.T, call.u, call.cost,
                                             call.dyn, call.x_init)]
  /\ UNCHANGED fwdvars

\* self.linearize_dynamics(x, u, dynamics, diff=False)
LinearizeCall ==
  /\ call.fn = "linearize_dynamics" /\ ~call.done
  /\ call' = [call EXCEPT !.done = TRUE,
                          !.result = [err |-> LinearizeDynamics(call.gm, call.kind),
                                      val |-> 0]]
  /\ UNCHANGED fwdvars

HelperNext == GetTrajCall \/ GetCostCall \/ LinearizeCall

HelperSpec == HelperInit /\ [][HelperNext]_vars

\* ==================================================================== claims
InLoop == pc \in {"loop", "post"} /\ best # NoBest

\* ---------------------------------------------------------------------- C1
\* C1 (as claimed): from one outer iteration to the next, the best-tracked
\* cost of every batch element does not increase, whatever the options.
C1_BestCostNeverIncreases ==
  [][(best # NoBest /\ best' # NoBest) =>
       \A j \in 1..n_batch : best'.costs[j] <= best.costs[j]]_vars

\* C1 (amended): with best_cost_eps >= 0, from one outer iteration to the
\* next the best-tracked cost of every batch element does not increase.
C1_BestCostNonIncreasing ==
  [][(best # NoBest /\ best' # NoBest /\ mpc.best_cost_eps >= 0) =>
       \A j \in 1..n_batch : best'.costs[j] <= best.costs[j]]_vars

\* an element adopted a candidate after the first iteration, under a
\* non-negative threshold
C1_Witness ==
  /\ InLoop
  /\ mpc.best_cost_eps >= 0
  /\ \E j \in 1..n_batch : best.costs_it[j] >= 1

\* ---------------------------------------------------------------------- C2
\* C2: with exit_unconverged set, forward fails whenever, at loop exit, the
\* update norm of some batch element is above eps, whatever the other
\* options are.
C2_ExitUnconvergedFails ==
  [][(pc = "post" /\ best # NoBest /\ mpc.exit_unconverged
        /\ \E j \in 1..n_batch : best.full_du_norm[j] > eps)
       => pc' = "failed"]_vars

\* ---------------------------------------------------------------------- C3
\* C3: with exit_unconverged unset, when some batch element's update norm
\* stayed above eps in every iteration, forward returns (x, u, costs) and
\* the non-convergence is reported.
C3_NonConvergenceReturnedAndReported ==
  [][(pc = "post" /\ best # NoBest /\ ~mpc.exit_unconverged /\ above # {})
       => (pc' = "returned" /\ warned')]_vars

\* ---------------------------------------------------------------------- C4
\* what the accumulator b holds for element j
BestRecord(b, j) ==
  [x    |-> {c \in Range(Concatenate(b.x)) : c.elem = j},
   u    |-> {c \in Range(Concatenate(b.u)) : c.elem = j},
   cost |-> b.costs[j],
   norm |-> b.full_du_norm[j]]

\* C4: at the start of every outer iteration i >= 1 the nominal controls
\* of each batch element are the best controls the accumulator holds for
\* that element.
C4_NominalIsBest ==
  (pc = "loop" /\ i >= 1) =>
    \A j \in 1..n_batch : \A c \in BestRecord(best, j).u : u[j] = c

\* ---------------------------------------------------------------------- C5
\* what iteration it's candidate with outcome out is for element j
CandRecord(out, it, j) ==
  [x    |-> {[elem |-> j, it |-> it]},
   u    |-> {[elem |-> j, it |-> it]},
   cost |-> out.costs[j],
   norm |-> out.full_du_norm[j]]

\* C5: in an iteration after the first (here under best_cost_eps >= 0),
\* element j's record becomes the candidate if and only if
\* candidate cost < best cost - best_cost_eps (a candidate at exactly
\* best cost - best_cost_eps is not adopted); otherwise element j's record
\* is left as it was.
C5_AdoptedIffStrictlyBetter ==
  [][(pc = "loop" /\ best # NoBest /\ pc' \in {"loop", "post"}
        /\ mpc.best_cost_eps >= 0) =>
       \A j \in 1..n_batch :
         BestRecord(best', j) =
           IF for_out'.costs[j] < best.costs[j] - mpc.best_cost_eps
             THEN CandRecord(for_out', i, j)
             ELSE BestRecord(best, j)]_vars

\* ---------------------------------------------------------------------- C6
\* the per-element counter of the claim for element j after the latest
\* iteration (i - 1): reset where j adopted a new best (the first candidate
\* included), incremented in every iteration since
Cnt(j) == (i - 1) - best.costs_it[j]

\* C6: after every iteration the shared counter n_not_improved stops the
\* loop exactly when every element's own counter exceeds not_improved_lim
\* (here for not_improved_lim >= 1).
C6_SharedCounterAsPerElement ==
  (InLoop /\ mpc.not_improved_lim >= 1) =>
    (NotImproved(n_not_improved)
       <=> \A j \in 1..n_batch : Cnt(j) > mpc.not_improved_lim)

\* ---------------------------------------------------------------------- C7
\* C7: with LinDx dynamics and a QuadCost the loop ends after exactly one
\* LQR step, with every recorded update norm at or below eps (here with
\* room for more: lqr_iter >= 2 and not_improved_lim >= 1).
C7_ExactProblemOneIteration ==
  (pc = "post" /\ best # NoBest /\ dx = "LinDx"
     /\ mpc.lqr_iter >= 2 /\ mpc.not_improved_lim >= 1) =>
    /\ calls.lqr = 1
    /\ \A j \in 1..n_batch : best.full_du_norm[j] <= eps

\* ---------------------------------------------------------------------- C8
\* C8: for lqr_iter >= 1 at most lqr_iter LQR steps are invoked, one per
\* iteration i = 0 .. lqr_iter-1, each iteration either raising or counting
\* i up towards lqr_iter; the loop is left for the post-loop code before
\* the budget is used up only when the largest update norm is below eps or
\* n_not_improved exceeds not_improved_lim.
C8_LoopWithinBudget ==
  /\ [](calls.lqr <= mpc.lqr_iter)
  /\ [][pc = "loop" =>
          /\ mpc.lqr_iter >= 1 /\ i < mpc.lqr_iter
          /\ calls'.lqr = calls.lqr + 1
          /\ pc' \in {"loop", "post"} => (i' = i + 1 /\ calls'.lqr = i')
          /\ pc' = "loop" => i' < mpc.lqr_iter
          /\ (pc' = "post" /\ i' < mpc.lqr_iter) =>
               (MaxOf(for_out'.full_du_norm) < eps
                  \/ n_not_improved' > mpc.not_improved_lim)]_vars

\* the loop was left before the budget was used up
C8_Witness ==
  pc = "post" /\ best # NoBest /\ i < mpc.lqr_iter

\* ---------------------------------------------------------------------- C9
\* the constructor arguments the claim calls invalid
BadCtorArgs ==
  \/ mpc.u_lower # mpc.u_upper
  \/ mpc.max_linesearch_iter <= 0

\* the forward inputs the claim calls invalid
BatchMissing == mpc.n_batch = 0 /\ cost.C_ndim # 4
BadRanks == cost.C_ndim \notin {2, 3, 4} \/ cost.c_ndim \notin {1, 2, 3}
BadXInit ==
  \/ x_init.ndim # 2
  \/ x_init.rows # (IF mpc.n_batch # 0 THEN mpc.n_batch ELSE cost.C_batch)
BadInputs == BatchMissing \/ BadRanks \/ BadXInit

\* C9: invalid constructor arguments are rejected by the constructor, and
\* invalid shapes abort forward before get_traj, the linearization or the
\* LQR step is invoked even once.
C9_PreconditionsFatal ==
  /\ BadCtorArgs => (pc \in {"init", "failed"} /\ calls = NoCalls)
  /\ BadInputs => (pc \in {"init", "constructed", "failed"} /\ calls = NoCalls)
  /\ (pc = "failed" /\ calls = NoCalls /\ ~BadCtorArgs /\ BadInputs)
       => err \in {"SystemExit", "AssertionError"}

\* forward aborted on a wrongly shaped input of a well-constructed solver
C9_Witness ==
  pc = "failed" /\ ~BadCtorArgs /\ BadInputs /\ calls = NoCalls

\* --------------------------------------------------------------------- C10
\* element j's trajectory, cost and update norm in (x, u) and b all belong
\* to one outer iteration's candidate for j
SameCandidate(x, uu, b, j) ==
  /\ x[j].elem = j /\ uu[j].elem = j
  /\ x[j].it = uu[j].it
  /\ x[j].it = b.costs_it[j]
  /\ x[j].it = b.norm_it[j]

\* C10: after every iteration the accumulator holds one entry per batch
\* element and each element's x, u, cost and norm are of the same
\* candidate; the returned x, u and costs have n_batch entries.
C10_OneEntryPerElement ==
  /\ InLoop =>
       /\ Len(Concatenate(best.x)) = n_batch
       /\ Len(Concatenate(best.u)) = n_batch
       /\ Len(best.costs) = n_batch
       /\ Len(best.full_du_norm) = n_batch
       /\ \A j \in 1..n_batch :
            SameCandidate(Concatenate(best.x), Concatenate(best.u), best, j)
  /\ pc = "returned" =>
       /\ Len(ret.x) = n_batch
       /\ Len(ret.u) = n_batch
       /\ Len(ret.costs) = n_batch
       /\ \A j \in 1..n_batch : ret.x[j].elem = j /\ ret.u[j].elem = j
                                /\ ret.x[j].it = ret.u[j].it

\* --------------------------------------------------------------------- C11
\* C11: in detach mode (detach_unconverged, not exit_unconverged) forward
\* returns x and u with the values of the best-tracked trajectories, and
\* the detached batch elements are exactly those whose best-tracked update
\* norm is not below eps.
C11_DetachesExactlyUnconverged ==
  [][(pc = "post" /\ best # NoBest
        /\ mpc.detach_unconverged /\ ~mpc.exit_unconverged) =>
       /\ pc' = "returned"
       /\ ret'.x = Concatenate(best.x)
       /\ ret'.u = Concatenate(best.u)
       /\ ret'.detached =
            {j \in 1..n_batch : ~(best.full_du_norm[j] < eps)}]_vars

\* --------------------------------------------------------------------- C12
\* C12: with grad_method = ANALYTIC_CHECK, linearize_dynamics never ends in
\* an assertion failure.
C12_AnalyticCheckNeverAsserts ==
  (call.fn = "linearize_dynamics" /\ call.done /\ call.gm = "ANALYTIC_CHECK")
    => call.result.err # "AssertionError"

\* --------------------------------------------------------------------- C13
\* the claimed cost: the sum over t = t0 .. T-1 of
\* 0.5 tau_t^T C_t tau_t + c_t^T tau_t with tau_t = (x_t, u_t)
RECURSIVE QuadSum(_, _, _, _, _)
QuadSum(t, T, x, uu, qc) ==
  IF t >= T THEN 0
  ELSE (Bquad([x |-> x[t + 1], u |-> uu[t + 1]], qc.C[t + 1]) \div 2)
       + qc.c[t + 1].x * x[t + 1] + qc.c[t + 1].u * uu[t + 1]
       + QuadSum(t + 1, T, x, uu, qc)

\* C13: for a QuadCost (C, c), util.get_cost returns the sum over t of
\* 0.5 tau_t^T C_t tau_t + c_t^T tau_t along the trajectory rolled out from
\* x_init.
C13_GetCostIsQuadraticSum ==
  (call.fn = "get_cost" /\ call.done) =>
    /\ call.result.err = ""
    /\ call.result.val =
         QuadSum(0, call.T, GetTraj(call.T, call.u, call.x_init, call.dyn),
                 call.u, call.cost)

\* --------------------------------------------------------------------- C14
\* C14: for LinDx dynamics (F, f), util.get_traj returns exactly T states
\* with x_0 = x_init and x_{t+1} = F_t [x_t; u_t] + f_t for t = 0..T-2
\* (zero offset when f is None); the last control changes no state; and
\* x_init, u, F and f are as they were before the call.
C14_GetTrajAffineRollout ==
  (call.fn = "get_traj" /\ call.done /\ call.dyn.kind = "LinDx") =>
    LET x == call.result.val
        T == call.T
        F == call.dyn.F
    IN
    /\ call.result.err = ""
    /\ Len(x) = T
    /\ x[1] = call.x_init
    /\ \A t \in 1..T-1 :
         x[t + 1] = F[t].x * x[t] + F[t].u * call.u[t]
                      + (IF call.dyn.has_f THEN call.dyn.f[t] ELSE 0)
    /\ \A v \in Vals :
         GetTraj(T, [call.u EXCEPT ![T] = v], call.x_init, call.dyn) = x
    /\ call.after = [x_init |-> call.x_init, u |-> call.u, dyn |-> call.dyn]

\* a rollout over the longest horizon in which an offset f_t moved a state
C14_Witness ==
  /\ call.fn = "get_traj" /\ call.done /\ call.dyn.kind = "LinDx"
  /\ call.T = MaxT /\ call.dyn.has_f
  /\ \E t \in 1..call.T-1 : call.dyn.f[t] # 0
  /\ call.result.val[call.T] > 1

\* --------------------------------------------------------------------- C15
\* C15 (as claimed): for best_cost_eps >= 0 the cost returned for element j
\* is at most j's first candidate cost and smaller than c + best_cost_eps
\* for every candidate cost c an iteration produced for j.
C15_ReturnedCostBelowEveryCandidate ==
  (pc = "returned" /\ mpc.best_cost_eps >= 0) =>
    \A j \in 1..n_batch :
      /\ ret.costs[j] <= seen[j].first
      /\ ret.costs[j] < seen[j].least + mpc.best_cost_eps

\* C15 (amended): for best_cost_eps >= 0 the cost returned for element j is
\* at most j's first candidate cost and at most c + best_cost_eps for
\* every candidate cost c an iteration produced for j, and smaller than
\* c + best_cost_eps when best_cost_eps > 0.
C15_ReturnedCostWithinEps ==
  (pc = "returned" /\ mpc.best_cost_eps >= 0) =>
    \A j \in 1..n_batch :
      /\ ret.costs[j] <= seen[j].first
      /\ ret.costs[j] <= seen[j].least + mpc.best_cost_eps
      /\ mpc.best_cost_eps > 0 =>
           ret.costs[j] < seen[j].least + mpc.best_cost_eps

\* forward returned, for some element, a cost above the least candidate
\* cost produced for it
C15_Witness ==
  /\ pc = "returned"
  /\ mpc.best_cost_eps > 0
  /\ \E j \in 1..n_batch : ret.costs[j] > seen[j].least

\* --------------------------------------------------------------------- C16
\* the exceptions forward's entry and loop body raise whatever verbose is:
\* the exits on a missing batch size or unexpected ranks, the x_init
\* assertion, and the list assignment of the best update
QuietFailures == {"SystemExit", "AssertionError", "IndexError"}

\* C16: enabling verbose > 0 never introduces a failure: a run with
\* verbose > 0 (and lqr_iter >= 1) fails in forward's entry or loop body only with an exception
\* the same run raises with verbose = 0.
C16_VerboseAddsNoFailure ==
  [][(mpc.verbose > 0 /\ mpc.lqr_iter >= 1
        /\ pc \in {"constructed", "loop"} /\ pc' = "failed")
       => err' \in QuietFailures]_vars

=============================================================================
